---- MODULE Spec2Model ----
(***************************************************************************)
(* jaundice-rate: the per-article pipeline (fetch, sanitize, split, score) *)
(* and its drivers:                                                        *)
(*   prog = "main" : src/main.py, main() runs process_article for every    *)
(*                   TEST_ARTICLES entry inside one anyio task group;      *)
(*   prog = "test" : src/jaundice_tools.py, pytest runs                    *)
(*                   test_process_article once per DATA_TESTS parameter,   *)
(*                   each run awaiting one process_article;                *)
(*   prog = "server" : src/server.py, the handler process_urls, which      *)
(*                   validates the query and awaits process (SpecServer).  *)
(* One step of the model is what runs between two suspension points of the *)
(* asyncio event loop (single-threaded cooperative scheduling).            *)
(* Strings of the source that are not ASCII are transliterated.            *)
(***************************************************************************)
EXTENDS Integers, Sequences, FiniteSets, TLC

\* ---------------------------------------------------------------- bounds
\* main() walks the first NumArticles entries of TEST_ARTICLES.
NumArticles == 3
\* One pytest session runs at most NumTests of the parameters of DATA_TESTS.
NumTests == 2
\* The longest value of a query parameter, in characters.
MaxQueryLen == 11

\* ------------------------------------------------------- optional values
\* Python's None and a present value x, as <<>> and <<x>>.
None == <<>>
Some(x) == <<x>>

\* ------------------------------------------------------ ProcessingStatus
OK == "OK"
FETCH_ERROR == "FETCH_ERROR"
PARSING_ERROR == "PARSING_ERROR"
TIMEOUT == "TIMEOUT"
ProcessingStatus == {OK, FETCH_ERROR, PARSING_ERROR, TIMEOUT}

\* REQUEST_TIMEOUT_SEC of main.py (1.5 s) and of jaundice_tools.py (10 s),
\* in milliseconds.
MAIN_REQUEST_TIMEOUT_MS == 1500
TOOLS_REQUEST_TIMEOUT_MS == 10000

\* ------------------------------------------------------------- requests
\* A url is <<scheme, netloc, path>>; a title is a sequence of text pieces.
Url(netloc, path) == <<"https", netloc, path>>
RawArticle(url, title) == [url |-> url, title |-> title]

TEST_ARTICLES ==
    << RawArticle(Url("inosmi.corrupted", "/politic/20210621/249959311.html"),
                  <<"corrupted">>),
       RawArticle(Url("lenta.ru", "/news/2021/07/19/baidenhck/"),
                  <<"Bajden rasskazal o razlichii">>),
       RawArticle(Url("ria.ru", "/20210719/rasizm-1741747346.html"),
                  <<"Gonduras pobedil Germaniyu">>),
       RawArticle(Url("inosmi.ru", "/politic/20210621/249959311.html"),
                  <<"Napadenie na Sovetskij Soyuz">>),
       RawArticle(Url("inosmi.ru", "/politic/20210628/250000579.html"),
                  <<"Rossiya potrebovala sdat oruzhie">>),
       RawArticle(Url("inosmi.ru", "/politic/20210629/249997600.html"),
                  <<"Kakoe vliyanie imeet uskorenie">>) >>

\* The dataclass Article: score and words_count default to None.
Article(status, url, title) ==
    [url |-> url, title |-> title, status |-> status, score |-> None,
     words_count |-> None]

DataBlock(article, expected, request_timeout_sec) ==
    [article |-> article, expected |-> expected,
     request_timeout_sec |-> request_timeout_sec]

\* The test table, in the order of the source.
DATA_TESTS ==
    << DataBlock(TEST_ARTICLES[1],
                 Article(FETCH_ERROR, TEST_ARTICLES[1].url, <<"URL not exists">>),
                 None),
       DataBlock(TEST_ARTICLES[2],
                 Article(PARSING_ERROR, TEST_ARTICLES[2].url,
                         <<"Statya na ", "lenta.ru">>),
                 None),
       DataBlock(TEST_ARTICLES[3],
                 Article(PARSING_ERROR, TEST_ARTICLES[3].url,
                         <<"Statya na ", "ria.ru">>),
                 None),
       DataBlock(TEST_ARTICLES[4],
                 Article(OK, TEST_ARTICLES[4].url, TEST_ARTICLES[4].title),
                 None),
       DataBlock(TEST_ARTICLES[5],
                 Article(OK, TEST_ARTICLES[5].url, TEST_ARTICLES[5].title),
                 None),
       DataBlock(TEST_ARTICLES[6],
                 Article(OK, TEST_ARTICLES[6].url, TEST_ARTICLES[6].title),
                 None),
       DataBlock(TEST_ARTICLES[6],
                 Article(TIMEOUT, TEST_ARTICLES[6].url, TEST_ARTICLES[6].title),
                 Some(100)) >>

\* urlparse(url).hostname: the netloc without userinfo and port, lower-cased.
\* The urls of the program carry neither userinfo nor port.
Lower(s) ==
    CASE s = "LENTA.RU" -> "lenta.ru"
      [] s = "Inosmi.ru" -> "inosmi.ru"
      [] OTHER -> s
hostname(url) == Lower(url[2])

\* ------------------------------------------------- external collaborators
\* What the network can answer to one fetch: an exception of the transport
\* or a page.  A page is what adapters.inosmi_ru.sanitize makes of it: not
\* an article, or the plain text as a sequence of raw words.
NotArticle == [article |-> FALSE, text |-> <<>>]
Pages ==
    { NotArticle,
      [article |-> TRUE, text |-> <<"Uzhasnye", "koty">>],
      [article |-> TRUE, text |-> <<"skandalu">>] }
FetchErrors ==
    {"ClientConnectorError", "InvalidURL", "TimeoutError", "ClientResponseError"}

\* adapters.inosmi_ru.sanitize(html, plaintext=True)
sanitize(html) ==
    IF html.article THEN [text |-> html.text, raised |-> "none"]
    ELSE [text |-> <<>>, raised |-> "ArticleNotFound"]

\* morph.parse(word)[0].normal_form
normal_form(word) ==
    CASE word = "Uzhasnye" -> "uzhasnyj"
      [] word = "koty" -> "kot"
      [] word = "skandalu" -> "skandal"
      [] OTHER -> word

\* text_tools.split_by_words(morph, text): every word of the text, normalised.
split_by_words(text) == [k \in 1..Len(text) |-> normal_form(text[k])]

\* text_tools.calculate_jaundice_rate(words, charged_words): the ratio
\* <<charged, total>>, and 0 (as <<0, 1>>) for no words.
calculate_jaundice_rate(words, charged_words) ==
    IF Len(words) = 0 THEN <<0, 1>>
    ELSE << Cardinality({k \in 1..Len(words) :
                           \E c \in 1..Len(charged_words) : charged_words[c] = words[k]}),
            Len(words) >>

\* ---------------------------------------------------------- the lexicon
\* CHARGED_DICT_ZIP on disk: whether ZipFile can open it, and its members in
\* namelist() order; a member is its name and its raw lines.
Member(name, lines) == [name |-> name, lines |-> lines]
Zip(readable, members) == [readable |-> readable, members |-> members]
ZipSources ==
    { Zip(FALSE, <<>>),
      Zip(TRUE, <<>>),
      Zip(TRUE, << Member("negative.txt", <<"uzhasnyj\n", " skandal \n">>) >>),
      Zip(TRUE, << Member("negative.txt", <<"uzhasnyj\n">>),
                   Member("positive.txt", <<"skandal\n">>) >>),
      Zip(TRUE, << Member("negative.txt", <<"uzhasnyj\n">>),
                   Member("positive.txt", <<>>) >>),
      Zip(TRUE, << Member("readme.md", <<"uzhasnyj\n">>) >>) }

\* line.decode('utf-8').strip()
decode_strip(line) ==
    CASE line = "uzhasnyj\n" -> "uzhasnyj"
      [] line = " skandal \n" -> "skandal"
      [] line = "skandal\n" -> "skandal"
      [] OTHER -> line

\* f_name.endswith('.txt')
endswith_txt(name) == name \in {"negative.txt", "positive.txt"}

StripAll(lines) == [k \in 1..Len(lines) |-> decode_strip(lines[k])]

\* main.py: every '.txt' member extends the list.
RECURSIVE ExtendAll(_, _)
ExtendAll(members, acc) ==
    IF members = <<>> THEN acc
    ELSE ExtendAll(Tail(members),
                   IF endswith_txt(Head(members).name)
                   THEN acc \o Head(members).lines ELSE acc)

\* jaundice_tools.py: every '.txt' member replaces the list.
RECURSIVE AssignEach(_, _)
AssignEach(members, acc) ==
    IF members = <<>> THEN acc
    ELSE AssignEach(Tail(members),
                    IF endswith_txt(Head(members).name)
                    THEN StripAll(Head(members).lines) ELSE acc)

\* A call of a getter: the class attribute afterwards, the exception raised
\* ("none" for a normal return), the value returned, and whether the call
\* went to the archive (zipfile.ZipFile(CHARGED_DICT_ZIP)).
Call(cache, raised, ret, opened) ==
    [raised |-> raised, cache |-> cache, ret |-> ret, opened |-> opened]

\* LazyJaundice.get_charged_words (main.py)
LazyJaundice_get_charged_words(cache, zip) ==
    IF cache # None THEN Call(cache, "none", cache[1], FALSE)
    ELSE IF ~zip.readable THEN Call(Some(<<>>), "OSError", <<>>, TRUE)
    ELSE LET words == StripAll(ExtendAll(zip.members, <<>>))
         IN  Call(Some(words), "none", words, TRUE)

\* JaundiceTools.get_charged_words (jaundice_tools.py)
JaundiceTools_get_charged_words_reloads(cache, zip) ==
    IF ~zip.readable THEN Call(Some(<<>>), "OSError", <<>>, TRUE)
    ELSE LET words == AssignEach(zip.members, <<>>)
         IN  IF Len(words) = 0
             THEN Call(Some(words), "JaundiceToolsException", <<>>, TRUE)
             ELSE Call(Some(words), "none", words, TRUE)

JaundiceTools_get_charged_words(cache, zip) ==
    IF cache # None THEN Call(cache, "none", cache[1], FALSE)
    ELSE IF ~zip.readable THEN Call(Some(<<>>), "OSError", <<>>, TRUE)
    ELSE LET words == AssignEach(zip.members, <<>>)
         IN  IF Len(words) = 0
             THEN Call(Some(words), "JaundiceToolsException", <<>>, TRUE)
             ELSE Call(Some(words), "none", words, TRUE)

\* ------------------------------------------------------------- the state
VARIABLES
    prog,              \* "main" (main.py), "test" (pytest on jaundice_tools.py)
                       \* or "server" (server.py)
    zipfile,           \* CHARGED_DICT_ZIP as found on disk
    cls_charged_words, \* the class attribute _charged_words: None or Some(list)
    cls_morph,         \* the class attribute _morph: None or Some(analyzer)
    last_call,         \* the latest get_charged_words call: None or Some(Call)
    zip_opens,         \* how often the archive was opened so far
    requests,          \* the articles of the running batch, in input order
    request_timeout,   \* the argument of timeout(): None or Some(ms)
    charged_words,     \* the list handed to every task of the batch
    expected,          \* the expected Article of the running test: None or Some
    result,            \* the shared result list
    owner,             \* owner[k]: the task that appended result[k]
    pc,                \* pc[i]: where task i stands
    fetched,           \* fetched[i]: how task i's fetch ended: None or Some(outcome)
    cleaned,           \* cleaned[i]: the local cleaned_text of task i
    slot,              \* slot[i]: the index in result of task i's local article
    calls,             \* calls[i]: how often task i called each collaborator
    opc,               \* where the driver stands
    session,           \* the aiohttp.ClientSession: "none", "open", "closed"
    cancel_called,     \* the task group's cancel scope was cancelled
    printed,           \* what main() printed
    testNo,            \* tests started so far
    lastParam,         \* the index in DATA_TESTS of the latest test's parameter
    verdicts,          \* the verdicts of the finished tests
    query,             \* request.query of the latest HTTP request
    prepared,          \* the argument of the process call of that request:
                       \* None (not called) or Some(prepared_urls)
    response,          \* the HTTP response of that request: None or Some
    spc                \* where the handler stands

vars == << prog, zipfile, cls_charged_words, cls_morph, last_call, requests,
           request_timeout, charged_words, expected, result, owner, pc, fetched,
           cleaned, slot, calls, opc, session, cancel_called, printed, testNo,
           lastParam, verdicts, zip_opens, query, prepared, response, spc >>

lexvars == << cls_charged_words, cls_morph, last_call, zip_opens >>
srvvars == << query, prepared, response, spc >>
taskvars == << result, owner, pc, fetched, cleaned, slot, calls >>

Tasks == 1..Len(requests)
Terminal == {"done", "raised", "cancelled"}
NoCalls == [fetches |-> 0, sanitizes |-> 0, splits |-> 0, scorings |-> 0]

\* An outcome of a fetch: the exception raised ("none": a page came back).
Outcome(raised, html) == [html |-> html, raised |-> raised]
FetchOutcomes ==
    {Outcome(e, NotArticle) : e \in FetchErrors} \cup {Outcome("none", p) : p \in Pages}

\* async with timeout(t): asyncio.TimeoutError can end the fetch when t is set.
CanTimeOut == request_timeout # None

Init ==
    /\ prog \in {"main", "test"}
    /\ zipfile \in ZipSources
    /\ cls_charged_words = None
    /\ cls_morph = None
    /\ last_call = None
    /\ requests = <<>>
    /\ request_timeout = None
    /\ charged_words = <<>>
    /\ expected = None
    /\ result = <<>>
    /\ owner = <<>>
    /\ pc = <<>>
    /\ fetched = <<>>
    /\ cleaned = <<>>
    /\ slot = <<>>
    /\ calls = <<>>
    /\ opc = "start"
    /\ session = "none"
    /\ cancel_called = FALSE
    /\ printed = <<>>
    /\ testNo = 0
    /\ lastParam = 0
    /\ verdicts = <<>>
    /\ zip_opens = 0
    /\ query = <<>>
    /\ prepared = None
    /\ response = None
    /\ spc = "idle"

\* The archive opened by a call of a getter.
Opens(call) == IF call.opened THEN 1 ELSE 0

\* get_morph: pymorphy2.MorphAnalyzer() once, then the cached instance.
get_morph(cache) == IF cache = None THEN Some("MorphAnalyzer") ELSE cache

\* --------------------------------------------- main.py: process_article
\* RESULT_TEMPLATE.format(title=, status=, score=, words_count=): the text
\* holds these four values and nothing else.
FormatResult(title, status, score, words_count) ==
    [title |-> title, status |-> status, score |-> score, words_count |-> words_count]

\* What one run of the task appends and whether it raises:
\* appended is <<>> or <<entry>>.
Step(raised, appended, ncalls) ==
    [raised |-> raised, appended |-> appended, ncalls |-> ncalls]

\* main_except_connector without the assignment to title
main_except_connector_keeps_title(title) ==
    [title |-> title, status |-> FETCH_ERROR, score |-> None, words_count |-> None]

\* except aiohttp.ClientConnectorError
main_except_connector(title) ==
    FormatResult(<<"URL not exists">>, FETCH_ERROR, None, None)

\* except asyncio.TimeoutError
main_except_timeout(title) ==
    FormatResult(title, TIMEOUT, None, None)

\* except adapters.ArticleNotFound
main_except_not_found(url, title) ==
    FormatResult(<<"Statya na ", hostname(url)>>, PARSING_ERROR, None, None)

\* main_scored with the rate taken over the words before normalisation
main_scored_raw_words(title, cleaned_text, charged) ==
    [title |-> title, status |-> OK,
     score |-> Some(calculate_jaundice_rate(cleaned_text, charged)),
     words_count |-> Some(Len(split_by_words(cleaned_text)))]

\* split, score, words_count, append_to_result
main_scored(title, cleaned_text, charged) ==
    LET split_text == split_by_words(cleaned_text)
    IN  FormatResult(title, OK,
                     Some(calculate_jaundice_rate(split_text, charged)),
                     Some(Len(split_text)))

\* process_article from the end of the fetch to its return: no await left.
main_after_fetch(url, title, out, charged) ==
    IF out.raised = "ClientConnectorError"
    THEN Step("none", <<main_except_connector(title)>>, NoCalls)
    ELSE IF out.raised = "TimeoutError"
    THEN Step("none", <<main_except_timeout(title)>>, NoCalls)
    ELSE IF out.raised # "none"
    THEN Step(out.raised, <<>>, NoCalls)
    ELSE IF sanitize(out.html).raised = "ArticleNotFound"
    THEN Step("none", <<main_except_not_found(url, title)>>,
              [NoCalls EXCEPT !.sanitizes = 1])
    ELSE Step("none", <<main_scored(title, sanitize(out.html).text, charged)>>,
              [NoCalls EXCEPT !.sanitizes = 1, !.splits = 1, !.scorings = 1])

AddCalls(c, d) ==
    [fetches |-> c.fetches + d.fetches, sanitizes |-> c.sanitizes + d.sanitizes,
     splits |-> c.splits + d.splits, scorings |-> c.scorings + d.scorings]

\* ----------------------------------------------------- main.py: main()
\* main() up to the end of the task group's body: the session, the group,
\* and per article get_morph(), get_charged_words() and start_soon.  A
\* getter that raises ends the group before any task was started.
MainStart ==
    /\ prog = "main" /\ opc = "start"
    /\ LET reqs == SubSeq(TEST_ARTICLES, 1, NumArticles)
           first == LazyJaundice_get_charged_words(cls_charged_words, zipfile)
           later == LazyJaundice_get_charged_words(first.cache, zipfile)
       IN  /\ cls_morph' = get_morph(cls_morph)
           /\ cls_charged_words' = first.cache
           /\ IF first.raised # "none"
              THEN /\ last_call' = Some(first)
                   /\ zip_opens' = zip_opens + Opens(first)
                   /\ opc' = "aborted"
                   /\ session' = "closed"
                   /\ UNCHANGED << requests, request_timeout, charged_words, pc,
                                   fetched, cleaned, slot, calls >>
              ELSE /\ last_call' = Some(IF Len(reqs) > 1 THEN later ELSE first)
                   /\ zip_opens' = zip_opens + Opens(first)
                                    + (IF Len(reqs) > 1 THEN Opens(later) ELSE 0)
                   /\ opc' = "running"
                   /\ session' = "open"
                   /\ requests' = reqs
                   /\ request_timeout' = Some(MAIN_REQUEST_TIMEOUT_MS)
                   /\ charged_words' = later.ret
                   /\ pc' = [i \in 1..Len(reqs) |-> "scheduled"]
                   /\ fetched' = [i \in 1..Len(reqs) |-> None]
                   /\ cleaned' = [i \in 1..Len(reqs) |-> <<>>]
                   /\ slot' = [i \in 1..Len(reqs) |-> 0]
                   /\ calls' = [i \in 1..Len(reqs) |-> NoCalls]
    /\ UNCHANGED << srvvars, prog, zipfile, expected, result, owner, cancel_called,
                    printed, testNo, lastParam, verdicts >>

\* The first step of a task, in start_soon order: the locals, timeout(),
\* and the request is on the wire.
MainTaskStart(i) ==
    /\ prog = "main" /\ opc = "running"
    /\ i \in Tasks /\ pc[i] = "scheduled"
    /\ ~cancel_called
    /\ \A j \in 1..(i - 1) : pc[j] # "scheduled"
    /\ pc' = [pc EXCEPT ![i] = "fetching"]
    /\ calls' = [calls EXCEPT ![i].fetches = @ + 1]
    /\ UNCHANGED << srvvars, prog, zipfile, lexvars, requests, request_timeout, charged_words,
                    expected, result, owner, fetched, cleaned, slot, opc, session,
                    cancel_called, printed, testNo, lastParam, verdicts >>

\* The fetch of task i ends with out, and the task runs to its return.  An
\* exception that leaves process_article makes the task group cancel its scope.
MainFetchDone(i, out) ==
    /\ prog = "main" /\ opc = "running"
    /\ i \in Tasks /\ pc[i] = "fetching"
    /\ ~cancel_called
    /\ out.raised = "TimeoutError" => CanTimeOut
    /\ LET st == main_after_fetch(requests[i].url, requests[i].title, out, charged_words)
       IN  /\ result' = result \o st.appended
           /\ owner' = owner \o [k \in 1..Len(st.appended) |-> i]
           /\ calls' = [calls EXCEPT ![i] = AddCalls(@, st.ncalls)]
           /\ pc' = [pc EXCEPT ![i] = IF st.raised = "none" THEN "done" ELSE "raised"]
           /\ cancel_called' = (st.raised # "none")
    /\ fetched' = [fetched EXCEPT ![i] = Some(out)]
    /\ UNCHANGED << srvvars, prog, zipfile, lexvars, requests, request_timeout, charged_words,
                    expected, cleaned, slot, opc, session, printed, testNo, lastParam, verdicts >>

\* A task of a cancelled scope gets CancelledError at its await (or before
\* its first step); nothing in process_article catches it.
TaskCancelled(i) ==
    /\ prog = "main" /\ opc = "running"
    /\ cancel_called
    /\ i \in Tasks /\ pc[i] \in {"scheduled", "fetching"}
    /\ pc' = [pc EXCEPT ![i] = "cancelled"]
    /\ UNCHANGED << srvvars, prog, zipfile, lexvars, requests, request_timeout, charged_words,
                    expected, result, owner, fetched, cleaned, slot, calls, opc,
                    session, cancel_called, printed, testNo, lastParam, verdicts >>

\* A variant of MainExitGroup that closes the session on the normal path only.
MainExitGroup_close_on_return_only ==
    /\ prog = "main" /\ opc = "running"
    /\ \A i \in Tasks : pc[i] \in Terminal
    /\ IF \E i \in Tasks : pc[i] = "raised"
       THEN opc' = "raised" /\ printed' = printed /\ session' = session
       ELSE opc' = "returned" /\ printed' = result /\ session' = "closed"
    /\ UNCHANGED << srvvars, prog, zipfile, lexvars, requests, request_timeout, charged_words,
                    expected, taskvars, cancel_called, testNo, lastParam, verdicts >>

\* The task group is left when every task has ended; it re-raises a task's
\* exception.  The session is closed either way; the results are printed
\* only on the normal path.
MainExitGroup ==
    /\ prog = "main" /\ opc = "running"
    /\ \A i \in Tasks : pc[i] \in Terminal
    /\ session' = "closed"
    /\ IF \E i \in Tasks : pc[i] = "raised"
       THEN opc' = "raised" /\ printed' = printed
       ELSE opc' = "returned" /\ printed' = result
    /\ UNCHANGED << srvvars, prog, zipfile, lexvars, requests, request_timeout, charged_words,
                    expected, taskvars, cancel_called, testNo, lastParam, verdicts >>

\* ------------------------------------ jaundice_tools.py: process_article
\* except (aiohttp.ClientConnectorError, aiohttp.InvalidURL)
tools_except_connector_as_timeout(article) ==
    [article EXCEPT !.status = TIMEOUT, !.title = <<"URL not exists">>]

tools_except_connector(article) ==
    [article EXCEPT !.status = FETCH_ERROR, !.title = <<"URL not exists">>]

\* except asyncio.TimeoutError
tools_except_timeout(article) ==
    [article EXCEPT !.status = TIMEOUT]

\* tools_except_not_found with the path of the url taken for its hostname
tools_except_not_found_path(article, url) ==
    [article EXCEPT !.status = PARSING_ERROR, !.title = <<"Statya na ", url[3]>>]

\* except adapters.ArticleNotFound
tools_except_not_found(article, url) ==
    [article EXCEPT !.status = PARSING_ERROR,
                    !.title = <<"Statya na ", hostname(url)>>]

\* tools_scored without the final assignment to status
tools_scored_keeps_status(article, words, charged) ==
    [article EXCEPT !.score = Some(calculate_jaundice_rate(words, charged)),
                    !.words_count = Some(Len(words))]

\* article.score, article.words_count, article.status after the split
tools_scored(article, words, charged) ==
    [article EXCEPT !.score = Some(calculate_jaundice_rate(words, charged)),
                    !.words_count = Some(Len(words)),
                    !.status = OK]

\* The placeholder process_article appends before its first await.
tools_placeholder(url, title) == Article(FETCH_ERROR, url, title)

\* process_article from the end of the fetch to its return or to the await
\* of split_by_words: the article afterwards, the exception that leaves the
\* function, the next position.
ToolsStep(article, raised, ncalls, next) ==
    [article |-> article, raised |-> raised, ncalls |-> ncalls, next |-> next]

tools_after_fetch_no_return(article, url, out) ==
    IF out.raised \in {"ClientConnectorError", "InvalidURL"}
    THEN ToolsStep(tools_except_connector(article), "none", NoCalls, "done")
    ELSE IF out.raised = "TimeoutError"
    THEN ToolsStep(tools_except_timeout(article), "none", NoCalls, "done")
    ELSE IF out.raised # "none"
    THEN ToolsStep(article, out.raised, NoCalls, "raised")
    ELSE IF sanitize(out.html).raised = "ArticleNotFound"
    THEN ToolsStep(tools_except_not_found(article, url), "none",
                   [NoCalls EXCEPT !.sanitizes = 1], "splitting")
    ELSE ToolsStep(article, "none", [NoCalls EXCEPT !.sanitizes = 1], "splitting")

tools_after_fetch(article, url, out) ==
    IF out.raised \in {"ClientConnectorError", "InvalidURL"}
    THEN ToolsStep(tools_except_connector(article), "none", NoCalls, "done")
    ELSE IF out.raised = "TimeoutError"
    THEN ToolsStep(tools_except_timeout(article), "none", NoCalls, "done")
    ELSE IF out.raised # "none"
    THEN ToolsStep(article, out.raised, NoCalls, "raised")
    ELSE IF sanitize(out.html).raised = "ArticleNotFound"
    THEN ToolsStep(tools_except_not_found(article, url), "none",
                   [NoCalls EXCEPT !.sanitizes = 1], "done")
    ELSE ToolsStep(article, "none", [NoCalls EXCEPT !.sanitizes = 1], "splitting")

\* ------------------------------- jaundice_tools.py: test_process_article
\* The test of parameter n of DATA_TESTS (pytest runs the selected parameters
\* in the order of the table): the fixtures (charged_words, morph_instance),
\* then asyncio.run(process_test(...)) up to the first await of
\* process_article: the session is open, the placeholder is in the list and
\* the request is on the wire.  A fixture that raises ends the test.
TestStart(n) ==
    /\ prog = "test" /\ opc # "running"
    /\ testNo < NumTests
    /\ n \in 1..Len(DATA_TESTS) /\ n > lastParam
    /\ testNo' = testNo + 1
    /\ lastParam' = n
    /\ LET db == DATA_TESTS[n]
           got == JaundiceTools_get_charged_words(cls_charged_words, zipfile)
       IN  /\ cls_charged_words' = got.cache
           /\ last_call' = Some(got)
           /\ zip_opens' = zip_opens + Opens(got)
           /\ IF got.raised # "none"
              THEN /\ cls_morph' = cls_morph
                   /\ opc' = "aborted"
                   /\ verdicts' = Append(verdicts, "error")
                   /\ requests' = <<>>
                   /\ request_timeout' = None
                   /\ charged_words' = <<>>
                   /\ expected' = None
                   /\ result' = <<>>
                   /\ owner' = <<>>
                   /\ pc' = <<>>
                   /\ fetched' = <<>>
                   /\ cleaned' = <<>>
                   /\ slot' = <<>>
                   /\ calls' = <<>>
                   /\ session' = "none"
              ELSE /\ cls_morph' = get_morph(cls_morph)
                   /\ opc' = "running"
                   /\ verdicts' = verdicts
                   /\ requests' = <<db.article>>
                   /\ request_timeout' = db.request_timeout_sec
                   /\ charged_words' = got.ret
                   /\ expected' = Some(db.expected)
                   /\ result' = <<tools_placeholder(db.article.url, db.article.title)>>
                   /\ owner' = <<1>>
                   /\ pc' = <<"fetching">>
                   /\ fetched' = <<None>>
                   /\ cleaned' = << <<>> >>
                   /\ slot' = <<1>>
                   /\ calls' = <<[NoCalls EXCEPT !.fetches = 1]>>
                   /\ session' = "open"
    /\ UNCHANGED << srvvars, prog, zipfile, cancel_called, printed >>

\* The fetch of task i ends with out; the task runs to its return or to the
\* await of split_by_words.
ToolsFetchDone(i, out) ==
    /\ prog = "test" /\ opc = "running"
    /\ i \in Tasks /\ pc[i] = "fetching"
    /\ out.raised = "TimeoutError" => CanTimeOut
    /\ LET st == tools_after_fetch(result[slot[i]], requests[i].url, out)
       IN  /\ result' = [result EXCEPT ![slot[i]] = st.article]
           /\ pc' = [pc EXCEPT ![i] = st.next]
           /\ calls' = [calls EXCEPT ![i] = AddCalls(@, st.ncalls)]
           /\ cleaned' = [cleaned EXCEPT ![i] =
                            IF st.next = "splitting" THEN sanitize(out.html).text ELSE @]
    /\ fetched' = [fetched EXCEPT ![i] = Some(out)]
    /\ UNCHANGED << srvvars, prog, zipfile, lexvars, requests, request_timeout, charged_words,
                    expected, owner, slot, opc, session, cancel_called, printed,
                    testNo, lastParam, verdicts >>

\* await text_tools.split_by_words returns; score, words_count and status
\* are stored without a further await.
ToolsSplitDone(i) ==
    /\ prog = "test" /\ opc = "running"
    /\ i \in Tasks /\ pc[i] = "splitting"
    /\ result' = [result EXCEPT ![slot[i]] =
                    tools_scored(@, split_by_words(cleaned[i]), charged_words)]
    /\ calls' = [calls EXCEPT ![i].splits = @ + 1, ![i].scorings = @ + 1]
    /\ pc' = [pc EXCEPT ![i] = "done"]
    /\ UNCHANGED << srvvars, prog, zipfile, lexvars, requests, request_timeout, charged_words,
                    expected, owner, fetched, cleaned, slot, opc, session,
                    cancel_called, printed, testNo, lastParam, verdicts >>

\* The assertions of test_process_article on the list process_test filled.
test_asserts(article_list, want) ==
    /\ Len(article_list) = 1
    /\ article_list[1].status = want.status
    /\ article_list[1].title = want.title
    /\ article_list[1].url = want.url

\* process_article has ended: process_test leaves the session and asyncio.run
\* returns or re-raises; then the assertions.
TestFinish ==
    /\ prog = "test" /\ opc = "running"
    /\ \A i \in Tasks : pc[i] \in Terminal
    /\ session' = "closed"
    /\ IF \E i \in Tasks : pc[i] = "raised"
       THEN /\ opc' = "raised"
            /\ verdicts' = Append(verdicts, "failed")
       ELSE /\ opc' = "returned"
            /\ verdicts' = Append(verdicts,
                                  IF test_asserts(result, expected[1])
                                  THEN "passed" ELSE "failed")
    /\ UNCHANGED << srvvars, prog, zipfile, lexvars, requests, request_timeout, charged_words,
                    expected, taskvars, cancel_called, printed, testNo, lastParam >>

\* ------------------------------------------------- server.py: process_urls
REQ_KEY == "urls"
MAX_URLS_COUNT == 10
\* ERROR_MESSAGE_TEMPLATE.format(REQ_KEY)
ERROR_MESSAGE_TEMPLATE(key) == <<"there are no \"", key, "\" key in query string">>
ERROR_MESSAGE_COUNT ==
    <<"too many urls in request, should be ", MAX_URLS_COUNT, " or less">>

\* A query string is a record of its parameters; a value is a sequence of
\* characters, "u" for a character of a url.
QueryValues == UNION {[1..n -> {"u", ","}] : n \in 0..MaxQueryLen}
Queries ==
    {<<>>, [lang |-> <<"u">>]}
        \cup {[urls |-> v] : v \in QueryValues}
        \cup {[urls |-> v, lang |-> <<"u">>] : v \in {<<>>, <<"u">>, <<"u", ",", "u">>}}

\* request.query.get(key): None for a parameter that is not there.
query_get(q, key) == IF key \in DOMAIN q THEN Some(q[key]) ELSE None

\* value.split(','): the pieces between the commas, empty pieces included.
RECURSIVE split(_)
split(value) ==
    IF \A j \in 1..Len(value) : value[j] # "," THEN <<value>>
    ELSE LET j == CHOOSE j \in 1..Len(value) :
                      value[j] = "," /\ \A h \in 1..(j - 1) : value[h] # ","
         IN  <<SubSeq(value, 1, j - 1)>> \o split(SubSeq(value, j + 1, Len(value)))

\* dumps({'error': error_txt})
prepare_error(error_txt) == [error |-> error_txt]

\* web.HTTPBadRequest(text=prepare_error(...), content_type='application/json')
HTTPBadRequest(text) ==
    [code |-> 400, content_type |-> "application/json",
     body_error |-> Some(text), body_data |-> <<>>]

\* asdict(result_el): the fields of the dataclass as a dict.
asdict(result_el) == [f \in DOMAIN result_el |-> result_el[f]]

\* web.json_response(data=results, ...)
json_response(data) ==
    [code |-> 200, content_type |-> "application/json",
     body_error |-> None, body_data |-> data]

\* len(urls) > MAX_URLS_COUNT
too_many_off_by_one(urls) == Len(urls) >= MAX_URLS_COUNT

too_many(urls) == Len(urls) > MAX_URLS_COUNT

\* main.Article(url=url): a request that has only a url.
main_Article(url) == RawArticle(url, <<>>)

\* main.process(prepared_urls): one result per request, in the order of the
\* requests, each with the url of its request and a status of the taxonomy;
\* an empty url cannot be fetched.
main_process(prepared_urls, st) ==
    [k \in 1..Len(prepared_urls) |->
        LET a == Article(IF prepared_urls[k].url = <<>> THEN FETCH_ERROR ELSE st,
                         prepared_urls[k].url, prepared_urls[k].title)
        IN  IF a.status = OK
            THEN [a EXCEPT !.score = Some(<<0, 1>>), !.words_count = Some(0)]
            ELSE a]

\* A request arrives and the handler runs up to its answer or to the await
\* of process.
process_urls(q) ==
    /\ prog = "server" /\ spc = "idle"
    /\ query' = q
    /\ LET value == query_get(q, REQ_KEY)
       IN  IF value = None
           THEN /\ response' = Some(HTTPBadRequest(
                                  prepare_error(ERROR_MESSAGE_TEMPLATE(REQ_KEY))))
                /\ prepared' = None
                /\ spc' = "responded"
           ELSE LET urls == split(value[1])
                IN  IF too_many(urls)
                    THEN /\ response' = Some(HTTPBadRequest(
                                           prepare_error(ERROR_MESSAGE_COUNT)))
                         /\ prepared' = None
                         /\ spc' = "responded"
                    ELSE /\ response' = None
                         /\ prepared' = Some([k \in 1..Len(urls) |->
                                                main_Article(urls[k])])
                         /\ spc' = "processing"
    /\ UNCHANGED << prog, zipfile, lexvars, requests, request_timeout, charged_words,
                    expected, taskvars, opc, session, cancel_called, printed,
                    testNo, lastParam, verdicts >>

\* process returns; the results go out as a JSON array.
process_returns(st) ==
    /\ prog = "server" /\ spc = "processing"
    /\ LET results == main_process(prepared[1], st)
       IN  response' = Some(json_response([k \in 1..Len(results) |->
                                             asdict(results[k])]))
    /\ spc' = "responded"
    /\ UNCHANGED << query, prepared, prog, zipfile, lexvars, requests,
                    request_timeout, charged_words, expected, taskvars, opc,
                    session, cancel_called, printed, testNo, lastParam, verdicts >>

\* The response is on the wire and the handler's frame is gone; the
\* application waits for the next request.
response_sent ==
    /\ prog = "server" /\ spc = "responded"
    /\ query' = <<>>
    /\ prepared' = None
    /\ response' = None
    /\ spc' = "idle"
    /\ UNCHANGED << prog, zipfile, lexvars, requests, request_timeout, charged_words,
                    expected, taskvars, opc, session, cancel_called, printed,
                    testNo, lastParam, verdicts >>

\* ---------------------------------------------------------- specification
Next ==
    \/ MainStart
    \/ \E i \in Tasks : MainTaskStart(i)
    \/ \E i \in Tasks, out \in FetchOutcomes : MainFetchDone(i, out)
    \/ \E i \in Tasks : TaskCancelled(i)
    \/ MainExitGroup
    \/ \E n \in 1..Len(DATA_TESTS) : TestStart(n)
    \/ \E i \in Tasks, out \in FetchOutcomes : ToolsFetchDone(i, out)
    \/ \E i \in Tasks : ToolsSplitDone(i)
    \/ TestFinish

Spec == Init /\ [][Next]_vars

\* The event loop runs every ready task and callback, and every fetch ends
\* (it returns, fails or is cut off): a step that can be taken is taken.
FairSpec == Spec /\ WF_vars(Next)

\* The web application of server.py: one handler, a request after the other.
InitServer ==
    /\ prog = "server"
    /\ zipfile = Zip(TRUE, << Member("negative.txt", <<"uzhasnyj\n">>),
                              Member("positive.txt", <<"skandal\n">>) >>)
    /\ cls_charged_words = None
    /\ cls_morph = None
    /\ last_call = None
    /\ requests = <<>>
    /\ request_timeout = None
    /\ charged_words = <<>>
    /\ expected = None
    /\ result = <<>>
    /\ owner = <<>>
    /\ pc = <<>>
    /\ fetched = <<>>
    /\ cleaned = <<>>
    /\ slot = <<>>
    /\ calls = <<>>
    /\ opc = "start"
    /\ session = "none"
    /\ cancel_called = FALSE
    /\ printed = <<>>
    /\ testNo = 0
    /\ lastParam = 0
    /\ verdicts = <<>>
    /\ zip_opens = 0
    /\ query = <<>>
    /\ prepared = None
    /\ response = None
    /\ spc = "idle"

NextServer ==
    \/ \E q \in Queries : process_urls(q)
    \/ \E st \in ProcessingStatus : process_returns(st)
    \/ response_sent

SpecServer == InitServer /\ [][NextServer]_vars

\* ------------------------------------------------------ claim vocabulary
\* The entries of the result list that task i put there.
EntriesOf(i) == {k \in 1..Len(result) : owner[k] = i}
HasUrl(entry) == "url" \in DOMAIN entry
\* The batch call has returned normally.
BatchReturned == opc = "returned"
FetchEndedWith(i, raised) == fetched[i] # None /\ fetched[i][1].raised = raised
GotArticle(i) == FetchEndedWith(i, "none") /\ fetched[i][1].html.article
GotNotArticle(i) == FetchEndedWith(i, "none") /\ ~fetched[i][1].html.article
NoStageAfterFetch(i) ==
    calls[i].sanitizes = 0 /\ calls[i].splits = 0 /\ calls[i].scorings = 0

\* C1: once the batch has returned, the result list holds exactly one entry
\* per request, put there by that request's task and carrying its url.
C1_OneResultPerTask ==
    BatchReturned =>
        /\ Len(result) = Len(requests)
        /\ \A i \in Tasks :
              /\ Cardinality(EntriesOf(i)) = 1
              /\ \A k \in EntriesOf(i) :
                    HasUrl(result[k]) /\ result[k].url = requests[i].url

\* C2: once the batch has returned, result k is the result of request k,
\* whatever the order in which the fetches ended.
C2_ResultOrder ==
    BatchReturned => \A k \in 1..Len(result) : owner[k] = k

\* C3: in every state (every state of the model is a suspension point or the
\* end of the batch) every entry of the result list has one of the four
\* statuses, and its score and words_count are present exactly when the
\* status is OK.
C3_StatusTaxonomy ==
    \A k \in 1..Len(result) :
        /\ result[k].status \in ProcessingStatus
        /\ (result[k].score # None) <=> (result[k].status = OK)
        /\ (result[k].words_count # None) <=> (result[k].status = OK)

\* An OK entry and a failed entry are in the list while a sibling is still
\* suspended in its fetch.
C3_Witness ==
    /\ \E i \in Tasks : pc[i] = "fetching"
    /\ \E k \in 1..Len(result) : result[k].status = OK /\ result[k].score # None
    /\ \E k \in 1..Len(result) : result[k].status # OK /\ result[k].score = None

\* C4: no exception leaves process_article, and the batch call never raises
\* because of an article.
C4_NoEscape ==
    /\ \A i \in Tasks : pc[i] # "raised"
    /\ opc # "raised"

\* C5: no task is ended by the failure of a sibling, and the driver leaves
\* the batch only when every task has ended by its own steps.
C5_NoSiblingCancelled ==
    /\ \A i \in Tasks : pc[i] # "cancelled"
    /\ opc \in {"returned", "raised"} => \A i \in Tasks : pc[i] \in {"done", "raised"}

\* C6: a fetch that ends with a connection error ends the task with one
\* entry of status FETCH_ERROR and title "URL not exists", without score and
\* words_count, and without any sanitize, split or score call.
C6_ConnectionError ==
    \A i \in Tasks :
        FetchEndedWith(i, "ClientConnectorError") =>
            /\ pc[i] = "done"
            /\ Cardinality(EntriesOf(i)) = 1
            /\ \A k \in EntriesOf(i) :
                  /\ result[k].status = FETCH_ERROR
                  /\ result[k].title = <<"URL not exists">>
                  /\ result[k].score = None
                  /\ result[k].words_count = None
            /\ NoStageAfterFetch(i)

C6_Witness ==
    \E i \in Tasks :
        /\ FetchEndedWith(i, "ClientConnectorError")
        /\ requests[i].title # <<"URL not exists">>
        /\ pc[i] = "done"

\* C7: a fetch cut off by the timeout ends the task with one entry of status
\* TIMEOUT whose title and url are the request's, without score and
\* words_count, and without any sanitize, split or score call.
C7_Timeout ==
    \A i \in Tasks :
        FetchEndedWith(i, "TimeoutError") =>
            /\ pc[i] = "done"
            /\ Cardinality(EntriesOf(i)) = 1
            /\ \A k \in EntriesOf(i) :
                  /\ result[k].status = TIMEOUT
                  /\ result[k].title = requests[i].title
                  /\ HasUrl(result[k]) /\ result[k].url = requests[i].url
                  /\ result[k].score = None
                  /\ result[k].words_count = None
            /\ NoStageAfterFetch(i)

\* C8: a fetched page the extractor does not recognise ends the task with
\* one entry of status PARSING_ERROR whose title was replaced by a text
\* holding the hostname of the request's url, without score and words_count,
\* and without any split or score call.
C8_NotRecognised ==
    \A i \in Tasks :
        GotNotArticle(i) =>
            /\ pc[i] = "done"
            /\ Cardinality(EntriesOf(i)) = 1
            /\ \A k \in EntriesOf(i) :
                  /\ result[k].status = PARSING_ERROR
                  /\ result[k].title # requests[i].title
                  /\ \E p \in 1..Len(result[k].title) :
                        result[k].title[p] = hostname(requests[i].url)
                  /\ result[k].score = None
                  /\ result[k].words_count = None
            /\ calls[i].splits = 0 /\ calls[i].scorings = 0

C8_Witness ==
    \E i \in Tasks :
        /\ GotNotArticle(i)
        /\ pc[i] = "done"
        /\ calls[i].sanitizes = 1

\* C9: a task whose fetch and extraction succeeded ends with one entry of
\* status OK and the request's title; words_count is the number of words
\* split_by_words made of the extracted text and score is
\* calculate_jaundice_rate of exactly these words and the class's lexicon.
C9_Scored ==
    \A i \in Tasks :
        (GotArticle(i) /\ pc[i] = "done") =>
            LET words == split_by_words(sanitize(fetched[i][1].html).text)
            IN  /\ Cardinality(EntriesOf(i)) = 1
                /\ cls_charged_words # None
                /\ \A k \in EntriesOf(i) :
                      /\ result[k].status = OK
                      /\ result[k].title = requests[i].title
                      /\ result[k].words_count = Some(Len(words))
                      /\ result[k].score =
                            Some(calculate_jaundice_rate(words, cls_charged_words[1]))

\* A scored article with a charged word among several words.
C9_Witness ==
    \E i \in Tasks :
        /\ GotArticle(i) /\ pc[i] = "done"
        /\ \E k \in EntriesOf(i) :
              result[k].score = Some(<<1, 2>>) /\ result[k].words_count = Some(2)

\* C10: a call of get_charged_words that returns normally returns a list
\* that is not empty, also after an earlier call that raised.
C10_NeverEmptyLexicon ==
    (last_call # None /\ last_call[1].raised = "none") => Len(last_call[1].ret) > 0

\* C12: a fetch that ends with the transport's invalid-URL error ends the
\* task like a connection error: one entry of status FETCH_ERROR and title
\* "URL not exists", and the error does not leave process_article.
C12_InvalidUrl ==
    \A i \in Tasks :
        FetchEndedWith(i, "InvalidURL") =>
            /\ pc[i] = "done"
            /\ Cardinality(EntriesOf(i)) = 1
            /\ \A k \in EntriesOf(i) :
                  /\ result[k].status = FETCH_ERROR
                  /\ result[k].title = <<"URL not exists">>

\* C13: the wait of every fetch is bounded by a timeout: a task that waits
\* for its fetch has a timeout in force, REQUEST_TIMEOUT_SEC when the caller
\* gave none.
C13_FetchWaitBounded ==
    \A i \in Tasks : pc[i] = "fetching" => request_timeout # None

\* C15: a task issues at most one fetch, and an entry of status TIMEOUT
\* belongs to a task whose fetch was cut off by the timeout and that ran no
\* later stage; a task whose fetch came back never has status TIMEOUT.
C15_TimeoutOnlyInFetch ==
    \A i \in Tasks :
        /\ calls[i].fetches <= 1
        /\ \A k \in EntriesOf(i) :
              result[k].status = TIMEOUT =>
                  FetchEndedWith(i, "TimeoutError") /\ NoStageAfterFetch(i)

\* A task past its fetch (sanitized, split and scored) next to a sibling
\* that timed out.
C15_Witness ==
    /\ \E i \in Tasks : GotArticle(i) /\ pc[i] = "done" /\ calls[i].scorings = 1
    /\ \E i \in Tasks :
          FetchEndedWith(i, "TimeoutError")
          /\ \E k \in EntriesOf(i) : result[k].status = TIMEOUT

\* C16: from its first step on, a task has an entry in the result list; while
\* the task waits for its fetch the entry has status FETCH_ERROR, the
\* request's url and title, and neither score nor words_count.
C16_PlaceholderFromStart ==
    \A i \in Tasks :
        pc[i] # "scheduled" =>
            /\ Cardinality(EntriesOf(i)) = 1
            /\ pc[i] = "fetching" =>
                  \A k \in EntriesOf(i) :
                      /\ result[k].status = FETCH_ERROR
                      /\ HasUrl(result[k]) /\ result[k].url = requests[i].url
                      /\ result[k].title = requests[i].title
                      /\ result[k].score = None
                      /\ result[k].words_count = None

\* C18: the session is open as long as a task of the batch has not ended,
\* and closed once the batch call has returned or raised.
C18_SessionScope ==
    /\ (\E i \in Tasks : pc[i] \notin Terminal) => session = "open"
    /\ opc \in {"returned", "raised"} => session = "closed"
    /\ (prog = "main" /\ opc = "aborted") => session = "closed"

\* The batch ended by an exception of a task, with the session closed.
C18_Witness ==
    /\ opc = "raised" /\ session = "closed"
    /\ \E i \in Tasks : pc[i] = "raised"

\* C19: the list a getter returns holds the words of every '.txt' member of
\* the archive.
C19_UnionOfMembers ==
    (last_call # None /\ last_call[1].raised = "none" /\ zipfile.readable) =>
        \A m \in 1..Len(zipfile.members) :
            endswith_txt(zipfile.members[m].name) =>
                \A l \in 1..Len(zipfile.members[m].lines) :
                    \E w \in 1..Len(last_call[1].ret) :
                        last_call[1].ret[w] = decode_strip(zipfile.members[m].lines[l])

\* The number of commas of a parameter value.
CommaCount(value) == Cardinality({j \in 1..Len(value) : value[j] = ","})
\* The request has the parameter and its list has at most MAX_URLS_COUNT
\* entries.
Acceptable(q) ==
    "urls" \in DOMAIN q /\ CommaCount(q.urls) + 1 <= MAX_URLS_COUNT

\* C11: the handler calls process exactly for a request that has the 'urls'
\* parameter with at most MAX_URLS_COUNT comma-separated entries, with one
\* request per entry; every other request is answered 400 with a JSON body
\* {error: string} and without a call of process; the answer to an accepted
\* request is 200 with one result per submitted url, in their order.
C11_UrlsValidation ==
    spc \in {"processing", "responded"} =>
        /\ (prepared # None) <=> Acceptable(query)
        /\ Acceptable(query) => Len(prepared[1]) = CommaCount(query.urls) + 1
        /\ spc = "responded" =>
              IF Acceptable(query)
              THEN /\ response[1].code = 200
                   /\ response[1].body_error = None
                   /\ Len(response[1].body_data) = CommaCount(query.urls) + 1
                   /\ \A k \in 1..Len(response[1].body_data) :
                         response[1].body_data[k].url = prepared[1][k].url
              ELSE /\ response[1].code = 400
                   /\ response[1].content_type = "application/json"
                   /\ response[1].body_error # None
                   /\ DOMAIN response[1].body_error[1] = {"error"}
                   /\ response[1].body_data = <<>>

\* A request of exactly ten urls was accepted and answered with ten results.
C11_Witness ==
    /\ spc = "responded"
    /\ Acceptable(query)
    /\ CommaCount(query.urls) = 9
    /\ response[1].code = 200
    /\ Len(response[1].body_data) = 10

\* C14: every task that started ends with a result recorded for it (and,
\* under fair scheduling, every started task does end and the batch leaves
\* the task group with the session released).
C14_StartedTaskEndsWithResult ==
    \A i \in Tasks :
        (pc[i] \in Terminal /\ calls[i].fetches > 0) => EntriesOf(i) # {}

\* The task has stored the status it ends with: a status other than the
\* placeholder's, or FETCH_ERROR after a fetch that failed to connect.
TerminalStatusSet(i) ==
    \E k \in EntriesOf(i) :
        \/ result[k].status \in {OK, PARSING_ERROR, TIMEOUT}
        \/ /\ result[k].status = FETCH_ERROR
           /\ fetched[i] # None
           /\ fetched[i][1].raised \in {"ClientConnectorError", "InvalidURL"}

\* C17: within a batch, an entry of the result list changes only in a step of
\* the task that created it, and never after that task has stored its
\* terminal status; entries are never removed or handed to another task.
C17_NoWriteAfterTerminal ==
    [][ opc = "running" =>
          /\ Len(result') >= Len(result)
          /\ \A k \in 1..Len(result) :
                /\ owner'[k] = owner[k]
                /\ result'[k] # result[k] =>
                      /\ ~TerminalStatusSet(owner[k])
                      /\ pc'[owner[k]] # pc[owner[k]]
                      /\ \A j \in Tasks \ {owner[k]} : pc'[j] = pc[j] ]_vars

\* A test whose task stored PARSING_ERROR over the placeholder has returned,
\* the entry still as the task left it.
C17_Witness ==
    /\ prog = "test" /\ opc = "returned"
    /\ TerminalStatusSet(1)
    /\ result[1].status = PARSING_ERROR

\* C20: the archive is opened at most once; after a call of
\* get_charged_words that returned normally, every later call returns the
\* same list without opening the archive, and no step changes the cached
\* list or the list the tasks were given.
C20_LexiconLoadedOnce ==
    [][ /\ zip_opens' <= 1
        /\ (last_call # None /\ last_call[1].raised = "none") =>
              /\ zip_opens' = zip_opens
              /\ cls_charged_words' = cls_charged_words
              /\ charged_words' = charged_words
              /\ last_call'[1].raised = "none"
              /\ last_call'[1].ret = last_call[1].ret ]_vars

\* A second test got the non-empty list from the class attribute, without
\* the archive being opened again.
C20_Witness ==
    /\ prog = "test" /\ testNo = 2
    /\ zip_opens = 1
    /\ last_call # None /\ last_call[1].raised = "none" /\ ~last_call[1].opened
    /\ Len(last_call[1].ret) > 0

====
